---- MODULE Spec2Model ----
(***************************************************************************)
(* ESP32-S3 USB stroke counter test firmware                               *)
(* (src/esp32-firmware/usb-stroke-test/src/main.cpp).                      *)
(*                                                                         *)
(* The firmware is one sequential control flow: setup() once, then loop()  *)
(* forever.  One pass of loop() is modelled as the sequence of steps       *)
(*   top -> oc -> cc -> rx -> hb -> top                                    *)
(* (read millis, sample the open-cell button, sample the closed-cell       *)
(* button, read one inbound line, heartbeat check).  Time is the value of  *)
(* millis() in milliseconds.  Inbound lines are sequences of characters    *)
(* and the String operations the interpreter uses (indexOf, substring,     *)
(* trim, readStringUntil) are computed on them as the Arduino core does.   *)
(***************************************************************************)
EXTENDS Integers, Sequences, FiniteSets, TLC

VARIABLES
  pc,             \* position of the control flow: setup, top, oc, cc, rx, hb
  clock,          \* millis()
  now,            \* loop(): unsigned long now = millis()            (line 129)
  pinOC,          \* level digitalRead(BTN_OPEN_CELL) returns in this pass
  pinCC,          \* level digitalRead(BTN_CLOSED_CELL) returns in this pass
  strokesOC,      \* line 32
  strokesCC,      \* line 33
  activeJobId,    \* line 34
  lastPressOC,    \* line 37
  lastPressCC,    \* line 38
  lastHeartbeat,  \* line 159
  rx,             \* bytes the host has sent and the firmware has not read yet
  out,            \* packets sent since the start of the current pass, in order
  handled,        \* lines handed to handleIncoming in the current pass
  pressesOC,      \* history: pressed samples of OC since boot / the last RESET
  gapOC,          \* history: the shortest spacing class among those samples
  pressesCC,      \* history: as pressesOC, for CC
  gapCC,          \* history: as gapOC, for CC
  prevHeartbeat,  \* history: lastHeartbeat before the latest heartbeat
  heldOC,         \* history: edges of OC accepted since OC was last sampled HIGH
  heldCC,         \* history: as heldOC, for CC
  hellos,         \* history: HELLO packets sent since boot
  firstPkt,       \* history: type of the first packet sent since boot
  hostTail,       \* history: bytes the host has written since its last terminator
  pending         \* history: complete lines the host has written, not yet read

vars == <<pc, clock, now, pinOC, pinCC, strokesOC, strokesCC, activeJobId,
          lastPressOC, lastPressCC, lastHeartbeat, rx, out, handled,
          pressesOC, gapOC, pressesCC, gapCC, prevHeartbeat,
          heldOC, heldCC, hellos, firstPkt, hostTail, pending>>

---------------------------------------------------------------------------
(* Program constants                                                       *)

DEBOUNCE_MS == 200

HEARTBEAT_MS == 5000

LED_PULSE_MS == 30

BLINK_MS == 100

BLINK_COUNT == 3

ATTACH_WAIT_MS == 3000

\* Stream::readStringUntil gives up one second after the last byte it got
\* (the Arduino core's default Stream timeout; the firmware never changes it).
READ_TIMEOUT_MS == 1000

\* "\"jobId\":\"" is nine characters long: the offset added at line 87.
MARKER_LEN == 9

---------------------------------------------------------------------------
(* Bounds of the model                                                     *)

\* No tick of the clock is taken past this value of millis().
MaxTime == 1060

\* As MaxTime, for the heartbeat specifications.
MaxTimeHb == 10600

\* The host has at most this many unread sends buffered.
MaxRxLines == 1

\* A button is pressed at most this many times in a row of presses that each
\* come at least the debounce interval after the last accepted one.
MaxPresses == 3

\* As MaxTime, for the inbound-line specification: room for one read that
\* times out.
MaxTimeRx == 1700

\* As MaxRxLines, for the inbound-line specification: a burst of lines.
MaxBurst == 2

---------------------------------------------------------------------------
(* Strings: a String is a sequence of one-character strings; positions     *)
(* are 0-based as in the code, so the character at position i is s[i+1].   *)

Min(S) == CHOOSE x \in S : \A y \in S : x <= y

Range(s) == {s[i] : i \in 1..Len(s)}

\* String::indexOf(const String&, unsigned int fromIndex)
IndexOfFrom(s, pat, from) ==
  IF from >= Len(s) THEN -1
  ELSE LET hits == {i \in from..(Len(s) - Len(pat)) :
                       SubSeq(s, i + 1, i + Len(pat)) = pat}
       IN  IF hits = {} THEN -1 ELSE Min(hits)

\* String::indexOf(const String&)
IndexOf(s, pat) == IndexOfFrom(s, pat, 0)

\* String::substring(unsigned int left, unsigned int right): a negative int
\* argument converts to a huge unsigned one.
Substring(s, left, right) ==
  LET big == Len(s) + 1
      l0  == IF left < 0 THEN big ELSE left
      r0  == IF right < 0 THEN big ELSE right
      l   == IF l0 > r0 THEN r0 ELSE l0
      r1  == IF l0 > r0 THEN l0 ELSE r0
      r   == IF r1 > Len(s) THEN Len(s) ELSE r1
  IN  IF l >= Len(s) THEN <<>> ELSE SubSeq(s, l + 1, r)

\* isspace()
Whitespace == {" ", "\t", "\n", "\r"}

\* String::trim()
Trim(s) ==
  LET keep == {i \in 1..Len(s) : s[i] \notin Whitespace}
  IN  IF keep = {} THEN <<>>
      ELSE SubSeq(s, Min(keep), CHOOSE i \in keep : \A j \in keep : j <= i)

---------------------------------------------------------------------------
(* The substrings the command interpreter searches for                     *)

qPING == <<"\"", "P", "I", "N", "G", "\"">>

qRESET == <<"\"", "R", "E", "S", "E", "T", "\"">>

qJOB_SELECTED ==
  <<"\"", "J", "O", "B", "_", "S", "E", "L", "E", "C", "T", "E", "D", "\"">>

qJobIdMarker == <<"\"", "j", "o", "b", "I", "d", "\"", ":", "\"">>

qQuote == <<"\"">>

---------------------------------------------------------------------------
(* Packets.  A packet is the record of the values the code concatenates    *)
(* into the JSON text, in the code's field order.                          *)

HelloPkt == [type |-> "HELLO", version |-> "0.1.0", device |-> "ESP32-S3-USB-Test"]

StrokePktSwapped(foam, oc, cc) ==
  [type |-> "STROKE", foam |-> foam, oc |-> cc, cc |-> oc]

\* sendStroke(foam): reads both counters when the packet is built
StrokePkt(foam, oc, cc) == [type |-> "STROKE", foam |-> foam, oc |-> oc, cc |-> cc]

AckPkt(message) == [type |-> "ACK", message |-> message]

PongMsg == <<"pong">>

ResetMsg == <<"counters reset">>

\* "job set: " + activeJobId
JobSetMsg(jobId) == <<"job set: ", jobId>>

HeartbeatPktSwapped(oc, cc, jobId) ==
  [type |-> "HEARTBEAT", oc |-> cc, cc |-> oc, jobId |-> jobId]

HeartbeatPkt(oc, cc, jobId) ==
  [type |-> "HEARTBEAT", oc |-> oc, cc |-> cc, jobId |-> jobId]

---------------------------------------------------------------------------
(* Input sampler                                                           *)

DebouncedLate(t, last) == t - last > DEBOUNCE_MS + LED_PULSE_MS

DebouncedOff(t, last) == t - last >= 0

\* now - lastPress > DEBOUNCE_MS.  Within the horizon of the model millis()
\* does not wrap, so the unsigned difference is the plain one.
Debounced(t, last) == t - last > DEBOUNCE_MS

\* History only: how the spacing of a pressed sample compares with the
\* debounce interval, and the worse of two such classes.
GapClass(t, last) ==
  IF t - last > DEBOUNCE_MS THEN "gt"
  ELSE IF t - last = DEBOUNCE_MS THEN "eq" ELSE "lt"

Worse(a, b) ==
  IF a = "lt" \/ b = "lt" THEN "lt"
  ELSE IF a = "eq" \/ b = "eq" THEN "eq" ELSE "gt"

---------------------------------------------------------------------------
(* Command interpreter                                                     *)

IntentResetFirst(raw) ==
  IF IndexOf(raw, qRESET) >= 0 THEN "RESET"
  ELSE IF IndexOf(raw, qPING) >= 0 THEN "PING"
  ELSE IF IndexOf(raw, qJOB_SELECTED) >= 0 THEN "JOB_SELECTED"
  ELSE "NONE"

IntentJobFirst(raw) ==
  IF IndexOf(raw, qPING) >= 0 THEN "PING"
  ELSE IF IndexOf(raw, qJOB_SELECTED) >= 0 THEN "JOB_SELECTED"
  ELSE IF IndexOf(raw, qRESET) >= 0 THEN "RESET"
  ELSE "NONE"

IntentDefaultPing(raw) ==
  IF IndexOf(raw, qRESET) >= 0 /\ IndexOf(raw, qPING) < 0 THEN "RESET"
  ELSE IF IndexOf(raw, qJOB_SELECTED) >= 0 /\ IndexOf(raw, qPING) < 0
       THEN "JOB_SELECTED"
  ELSE "PING"

\* The branch handleIncoming takes: the three indexOf tests in their order.
Intent(raw) ==
  IF IndexOf(raw, qPING) >= 0 THEN "PING"
  ELSE IF IndexOf(raw, qRESET) >= 0 THEN "RESET"
  ELSE IF IndexOf(raw, qJOB_SELECTED) >= 0 THEN "JOB_SELECTED"
  ELSE "NONE"

\* int start = raw.indexOf("\"jobId\":\"") + 9;
JobStart(raw) == IndexOf(raw, qJobIdMarker) + MARKER_LEN

\* int end = raw.indexOf("\"", start);
JobEnd(raw) == IndexOfFrom(raw, qQuote, JobStart(raw))

JobIdFoundNoEnd(start, end) == start > MARKER_LEN

JobIdFoundEmptyOk(start, end) == start > MARKER_LEN /\ end >= start

\* if (start > 9 && end > start)
JobIdFound(start, end) == start > MARKER_LEN /\ end > start

CounterAfterResetOcOnly(foam, old) == IF foam = "oc" THEN 0 ELSE old

\* strokesOC = strokesCC = 0;
CounterAfterReset(foam, old) == 0

\* handleIncoming with a job selection that also starts the counts afresh.
HandleIncomingJobResets(raw) ==
  LET intent == Intent(raw)
      start  == JobStart(raw)
      end    == JobEnd(raw)
  IN  /\ handled' = Append(handled, raw)
      /\ IF intent = "PING"
         THEN /\ out' = Append(out, AckPkt(PongMsg))
              /\ UNCHANGED <<strokesOC, strokesCC, activeJobId,
                             pressesOC, gapOC, pressesCC, gapCC>>
         ELSE IF intent = "RESET"
         THEN /\ strokesOC' = CounterAfterReset("oc", strokesOC)
              /\ strokesCC' = CounterAfterReset("cc", strokesCC)
              /\ out' = Append(out, AckPkt(ResetMsg))
              /\ pressesOC' = 0
              /\ pressesCC' = 0
              /\ gapOC' = "gt"
              /\ gapCC' = "gt"
              /\ UNCHANGED activeJobId
         ELSE IF intent = "JOB_SELECTED" /\ JobIdFound(start, end)
         THEN /\ activeJobId' = Substring(raw, start, end)
              /\ out' = Append(out, AckPkt(JobSetMsg(activeJobId')))
              /\ strokesOC' = 0
              /\ strokesCC' = 0
              /\ UNCHANGED <<pressesOC, gapOC, pressesCC, gapCC>>
         ELSE UNCHANGED <<strokesOC, strokesCC, activeJobId, out,
                          pressesOC, gapOC, pressesCC, gapCC>>

\* handleIncoming with a RESET that also forgets the selected job.
HandleIncomingResetClearsJob(raw) ==
  LET intent == Intent(raw)
      start  == JobStart(raw)
      end    == JobEnd(raw)
  IN  /\ handled' = Append(handled, raw)
      /\ IF intent = "PING"
         THEN /\ out' = Append(out, AckPkt(PongMsg))
              /\ UNCHANGED <<strokesOC, strokesCC, activeJobId,
                             pressesOC, gapOC, pressesCC, gapCC>>
         ELSE IF intent = "RESET"
         THEN /\ strokesOC' = CounterAfterReset("oc", strokesOC)
              /\ strokesCC' = CounterAfterReset("cc", strokesCC)
              /\ out' = Append(out, AckPkt(ResetMsg))
              /\ pressesOC' = 0
              /\ pressesCC' = 0
              /\ gapOC' = "gt"
              /\ gapCC' = "gt"
              /\ activeJobId' = <<>>
         ELSE IF intent = "JOB_SELECTED" /\ JobIdFound(start, end)
         THEN /\ activeJobId' = Substring(raw, start, end)
              /\ out' = Append(out, AckPkt(JobSetMsg(activeJobId')))
              /\ UNCHANGED <<strokesOC, strokesCC,
                             pressesOC, gapOC, pressesCC, gapCC>>
         ELSE UNCHANGED <<strokesOC, strokesCC, activeJobId, out,
                          pressesOC, gapOC, pressesCC, gapCC>>

\* void handleIncoming(const String& raw)
HandleIncoming(raw) ==
  LET intent == Intent(raw)
      start  == JobStart(raw)
      end    == JobEnd(raw)
  IN  /\ handled' = Append(handled, raw)
      /\ IF intent = "PING"
         THEN /\ out' = Append(out, AckPkt(PongMsg))
              /\ UNCHANGED <<strokesOC, strokesCC, activeJobId,
                             pressesOC, gapOC, pressesCC, gapCC>>
         ELSE IF intent = "RESET"
         THEN /\ strokesOC' = CounterAfterReset("oc", strokesOC)
              /\ strokesCC' = CounterAfterReset("cc", strokesCC)
              /\ out' = Append(out, AckPkt(ResetMsg))
              /\ pressesOC' = 0
              /\ pressesCC' = 0
              /\ gapOC' = "gt"
              /\ gapCC' = "gt"
              /\ UNCHANGED activeJobId
         ELSE IF intent = "JOB_SELECTED" /\ JobIdFound(start, end)
         THEN /\ activeJobId' = Substring(raw, start, end)
              /\ out' = Append(out, AckPkt(JobSetMsg(activeJobId')))
              /\ UNCHANGED <<strokesOC, strokesCC,
                             pressesOC, gapOC, pressesCC, gapCC>>
         ELSE UNCHANGED <<strokesOC, strokesCC, activeJobId, out,
                          pressesOC, gapOC, pressesCC, gapCC>>

---------------------------------------------------------------------------
(* Lines the host sends (inputs of the model)                              *)

tType == <<"{", "\"", "t", "y", "p", "e", "\"", ":">>

tClose == <<"}">>

tComma == <<",">>

tTypeTail == <<"\"", "t", "y", "p", "e", "\"", ":">>

tId == <<"\"", "i", "d", "\"", ":">>

\* {"type":"PING"}
LinePing == tType \o qPING \o tClose

\* {"type":"RESET"}
LineReset == tType \o qRESET \o tClose

\* {"type":"JOB_SELECTED","jobId":"<token>"}
LineJob(token) ==
  tType \o qJOB_SELECTED \o tComma \o qJobIdMarker \o token \o qQuote \o tClose

\* {"jobId":"<token>","type":"JOB_SELECTED"}
LineJobIdFirst(token) ==
  <<"{">> \o qJobIdMarker \o token \o qQuote \o tComma \o tTypeTail
          \o qJOB_SELECTED \o tClose

\* "jobId":"<token>","type":"JOB_SELECTED"      (the marker opens the line)
LineJobBare(token) ==
  qJobIdMarker \o token \o qQuote \o tComma \o tTypeTail \o qJOB_SELECTED

\* {"type":"JOB_SELECTED"}
LineJobNoMarker == tType \o qJOB_SELECTED \o tClose

\* {"type":"JOB_SELECTED","jobId":"j1           (cut before the closing quote)
LineJobNoQuote == tType \o qJOB_SELECTED \o tComma \o qJobIdMarker \o <<"j", "1">>

\* {"type":"RESET","id":"PING"}
LineResetPing == tType \o qRESET \o tComma \o tId \o qPING \o tClose

\* {"type":"NOP"}
LineUnknown == tType \o <<"\"", "N", "O", "P", "\"">> \o tClose

\* PING                                          (no quotes around the word)
LineBarePing == <<"P", "I", "N", "G">>

\* a line of blanks
LineBlank == <<" ", "\r">>

TokJ1 == <<"j", "1">>

TokJ2 == <<"j", "2">>

TokSpaced == <<" ", "a", " ">>

\* Lines of the command-interpreter specification.
CmdLines ==
  { LinePing, LineReset, LineJob(TokJ1), LineJob(TokSpaced), LineJob(<<>>),
    LineJob(<<"P", "I", "N", "G">>), LineJob(<<"R", "E", "S", "E", "T">>),
    LineJobIdFirst(TokJ2), LineJobBare(TokJ2), LineJobNoMarker, LineJobNoQuote,
    LineResetPing, LineUnknown, LineBarePing, LineBlank,
    <<" ">> \o LinePing \o <<"\r">> }

\* Lines of the timing specifications.
TimedLines == { LineReset }

HbLines == { LineJob(TokJ1) }

\* Lines of the inbound-line specification, and the bytes the host may
\* write without a terminator: a whole RESET command, its newline missing.
RxLines == { LinePing, LineReset, LineBlank }

RxPartials == { LineReset }

\* Ticks of millis() between two passes of loop().
NoTicks == { 0 }

DebounceTicks == { 0, DEBOUNCE_MS - LED_PULSE_MS, DEBOUNCE_MS }

HbTicks == { 0, HEARTBEAT_MS }

\* How long the host takes to attach (ms): here it is there at once.
AttachAtOnce == { 0 }

\* The host attaches at once, half way through the wait, or not before the
\* wait has run out (never, as far as setup() can tell).
AttachWaits == { 0, ATTACH_WAIT_MS \div 2, 2 * ATTACH_WAIT_MS }

\* Lines of the specification of the whole loop: one of each kind.
AllLines == { LinePing, LineReset, LineJob(TokJ1), LineUnknown }

\* Lines of the startup specification.
BootLines == { LinePing }

Levels == { "LOW", "HIGH" }


---------------------------------------------------------------------------
(* The state machine                                                       *)

\* Globals as initialised at lines 32-38 and 159; millis() starts at 0.
Init ==
  /\ pc = "setup"
  /\ clock = 0
  /\ now = 0
  /\ pinOC = "HIGH"
  /\ pinCC = "HIGH"
  /\ strokesOC = 0
  /\ strokesCC = 0
  /\ activeJobId = <<>>
  /\ lastPressOC = 0
  /\ lastPressCC = 0
  /\ lastHeartbeat = 0
  /\ rx = <<>>
  /\ out = <<>>
  /\ handled = <<>>
  /\ pressesOC = 0
  /\ gapOC = "gt"
  /\ pressesCC = 0
  /\ gapCC = "gt"
  /\ prevHeartbeat = 0
  /\ heldOC = 0
  /\ heldCC = 0
  /\ hellos = 0
  /\ firstPkt = "none"
  /\ hostTail = <<>>
  /\ pending = <<>>

\* History only: the type of the first packet sent, once one has been sent.
FirstSent(first, before, after) ==
  IF first = "none" /\ Len(after) > Len(before) THEN after[Len(after)].type
  ELSE first

\* setup() without its last statement: no HELLO is sent.
SetupNoHello(waits) ==
  /\ pc = "setup"
  /\ \E w \in waits :
       clock' = clock + BLINK_COUNT * 2 * BLINK_MS
                      + (IF w < ATTACH_WAIT_MS THEN w ELSE ATTACH_WAIT_MS)
  /\ pc' = "top"
  /\ UNCHANGED <<now, pinOC, pinCC, strokesOC, strokesCC, activeJobId,
                 lastPressOC, lastPressCC, lastHeartbeat, rx, out, handled,
                 pressesOC, gapOC, pressesCC, gapCC, prevHeartbeat,
                 heldOC, heldCC, hellos, firstPkt, hostTail, pending>>

\* setup(): three blinks of 2 x 100 ms, the attach wait (the host attaches
\* after w ms, or the wait runs out), then the HELLO packet.
Setup(waits) ==
  /\ pc = "setup"
  /\ \E w \in waits :
       clock' = clock + BLINK_COUNT * 2 * BLINK_MS
                      + (IF w < ATTACH_WAIT_MS THEN w ELSE ATTACH_WAIT_MS)
  /\ out' = Append(out, HelloPkt)
  /\ hellos' = hellos + 1
  /\ firstPkt' = FirstSent(firstPkt, out, out')
  /\ pc' = "top"
  /\ UNCHANGED <<now, pinOC, pinCC, strokesOC, strokesCC, activeJobId,
                 lastPressOC, lastPressCC, lastHeartbeat, rx, handled,
                 pressesOC, gapOC, pressesCC, gapCC, prevHeartbeat,
                 heldOC, heldCC, hostTail, pending>>

\* Unread sends in the buffer: terminated lines, plus an unterminated tail.
Sends(buf) ==
  Cardinality({i \in 1..Len(buf) : buf[i] = "\n"})
    + (IF buf # <<>> /\ buf[Len(buf)] # "\n" THEN 1 ELSE 0)

\* The host writes a line, with its terminator or (partials) without it; it
\* writes at most one chunk without a terminator before it ends the line.
\* Bytes arriving during a pass are seen by the next available() as if they
\* had arrived before the pass, so sends are taken between passes.
HostSend(lines, partials, maxTime, maxLines) ==
  /\ pc = "top"
  /\ Sends(rx) < maxLines
  /\ \/ \E l \in lines :
          /\ rx' = rx \o l \o <<"\n">>
          /\ pending' = Append(pending, hostTail \o l)
          /\ hostTail' = <<>>
     \/ \E l \in partials :
          /\ hostTail = <<>>
          /\ clock + READ_TIMEOUT_MS <= maxTime
          /\ rx' = rx \o l
          /\ hostTail' = hostTail \o l
          /\ UNCHANGED pending
  /\ UNCHANGED <<pc, clock, now, pinOC, pinCC, strokesOC, strokesCC,
                 activeJobId, lastPressOC, lastPressCC, lastHeartbeat, out,
                 handled, pressesOC, gapOC, pressesCC, gapCC, prevHeartbeat,
                 heldOC, heldCC, hellos, firstPkt>>

\* loop() is entered: d ms have passed since the last pass returned;
\* now = millis() (line 129).  The levels the two digitalRead calls of this
\* pass will return are fixed here.
LoopTop(ticks, maxTime, levelsCC) ==
  /\ pc = "top"
  /\ \E d \in ticks :
       /\ clock + d <= maxTime
       /\ clock' = clock + d
  /\ now' = clock'
  /\ pinOC' \in Levels
  /\ pinCC' \in levelsCC
  /\ pinOC' = "LOW" => pressesOC < MaxPresses
  /\ pinCC' = "LOW" => pressesCC < MaxPresses
  /\ out' = <<>>
  /\ handled' = <<>>
  /\ pc' = "oc"
  /\ UNCHANGED <<strokesOC, strokesCC, activeJobId, lastPressOC, lastPressCC,
                 lastHeartbeat, rx, pressesOC, gapOC, pressesCC, gapCC,
                 prevHeartbeat, heldOC, heldCC, hellos, firstPkt,
                 hostTail, pending>>

\* History of the pressed samples of a channel (no effect on the program).
NextGap(gap, t, last) == Worse(gap, GapClass(t, last))

NextPresses(presses, gap, t, last) ==
  IF NextGap(gap, t, last) = "lt" THEN 0 ELSE presses + 1

\* History only: the edges accepted in the current hold of a button; a HIGH
\* sample ends the hold.
NextHeld(held, level, accepted) ==
  IF level = "HIGH" THEN 0 ELSE IF accepted THEN held + 1 ELSE held

\* The open-cell sampler as an edge detector: a pressed level is accepted
\* only if no edge was accepted since the input was last sampled released.
SampleOCEdge ==
  /\ pc = "oc"
  /\ IF pinOC = "LOW" /\ Debounced(now, lastPressOC) /\ heldOC = 0
     THEN /\ lastPressOC' = now
          /\ strokesOC' = strokesOC + 1
          /\ out' = Append(out, StrokePkt("oc", strokesOC', strokesCC))
          /\ clock' = clock + LED_PULSE_MS
     ELSE UNCHANGED <<lastPressOC, strokesOC, out, clock>>
  /\ IF pinOC = "LOW"
     THEN /\ gapOC' = NextGap(gapOC, now, lastPressOC)
          /\ pressesOC' = NextPresses(pressesOC, gapOC, now, lastPressOC)
     ELSE UNCHANGED <<gapOC, pressesOC>>
  /\ heldOC' = NextHeld(heldOC, pinOC, strokesOC' # strokesOC)
  /\ firstPkt' = FirstSent(firstPkt, out, out')
  /\ pc' = "cc"
  /\ UNCHANGED <<now, pinOC, pinCC, strokesCC, activeJobId, lastPressCC,
                 lastHeartbeat, rx, handled, pressesCC, gapCC, prevHeartbeat,
                 heldCC, hellos, hostTail, pending>>

\* lines 131-138
SampleOC ==
  /\ pc = "oc"
  /\ IF pinOC = "LOW" /\ Debounced(now, lastPressOC)
     THEN /\ lastPressOC' = now
          /\ strokesOC' = strokesOC + 1
          /\ out' = Append(out, StrokePkt("oc", strokesOC', strokesCC))
          /\ clock' = clock + LED_PULSE_MS
     ELSE UNCHANGED <<lastPressOC, strokesOC, out, clock>>
  /\ IF pinOC = "LOW"
     THEN /\ gapOC' = NextGap(gapOC, now, lastPressOC)
          /\ pressesOC' = NextPresses(pressesOC, gapOC, now, lastPressOC)
     ELSE UNCHANGED <<gapOC, pressesOC>>
  /\ heldOC' = NextHeld(heldOC, pinOC, strokesOC' # strokesOC)
  /\ firstPkt' = FirstSent(firstPkt, out, out')
  /\ pc' = "cc"
  /\ UNCHANGED <<now, pinOC, pinCC, strokesCC, activeJobId, lastPressCC,
                 lastHeartbeat, rx, handled, pressesCC, gapCC, prevHeartbeat,
                 heldCC, hellos, hostTail, pending>>

\* The closed-cell sampler reading millis() afresh instead of the pass's
\* now: an accepted open-cell press (delay(30)) then shifts its time base.
SampleCCReadsClock ==
  /\ pc = "cc"
  /\ IF pinCC = "LOW" /\ Debounced(clock, lastPressCC)
     THEN /\ lastPressCC' = clock
          /\ strokesCC' = strokesCC + 1
          /\ out' = Append(out, StrokePkt("cc", strokesOC, strokesCC'))
          /\ clock' = clock + LED_PULSE_MS
     ELSE UNCHANGED <<lastPressCC, strokesCC, out, clock>>
  /\ IF pinCC = "LOW"
     THEN /\ gapCC' = NextGap(gapCC, now, lastPressCC)
          /\ pressesCC' = NextPresses(pressesCC, gapCC, now, lastPressCC)
     ELSE UNCHANGED <<gapCC, pressesCC>>
  /\ heldCC' = NextHeld(heldCC, pinCC, strokesCC' # strokesCC)
  /\ firstPkt' = FirstSent(firstPkt, out, out')
  /\ pc' = "rx"
  /\ UNCHANGED <<now, pinOC, pinCC, strokesOC, activeJobId, lastPressOC,
                 lastHeartbeat, rx, handled, pressesOC, gapOC, prevHeartbeat,
                 heldOC, hellos, hostTail, pending>>

\* lines 140-147
SampleCC ==
  /\ pc = "cc"
  /\ IF pinCC = "LOW" /\ Debounced(now, lastPressCC)
     THEN /\ lastPressCC' = now
          /\ strokesCC' = strokesCC + 1
          /\ out' = Append(out, StrokePkt("cc", strokesOC, strokesCC'))
          /\ clock' = clock + LED_PULSE_MS
     ELSE UNCHANGED <<lastPressCC, strokesCC, out, clock>>
  /\ IF pinCC = "LOW"
     THEN /\ gapCC' = NextGap(gapCC, now, lastPressCC)
          /\ pressesCC' = NextPresses(pressesCC, gapCC, now, lastPressCC)
     ELSE UNCHANGED <<gapCC, pressesCC>>
  /\ heldCC' = NextHeld(heldCC, pinCC, strokesCC' # strokesCC)
  /\ firstPkt' = FirstSent(firstPkt, out, out')
  /\ pc' = "rx"
  /\ UNCHANGED <<now, pinOC, pinCC, strokesOC, activeJobId, lastPressOC,
                 lastHeartbeat, rx, handled, pressesOC, gapOC, prevHeartbeat,
                 heldOC, hellos, hostTail, pending>>

\* Stream::readStringUntil('\n') on a non-empty buffer: the bytes before the
\* first terminator, which is consumed; with no terminator buffered, all the
\* bytes, after the read has timed out.
LineEndLast(buf) ==
  IF "\n" \in Range(buf)
  THEN CHOOSE i \in 1..Len(buf) :
         buf[i] = "\n" /\ \A j \in (i + 1)..Len(buf) : buf[j] # "\n"
  ELSE Len(buf) + 1

LineEnd(buf) ==
  IF "\n" \in Range(buf) THEN Min({i \in 1..Len(buf) : buf[i] = "\n"})
  ELSE Len(buf) + 1

\* lines 150-156
ReadSerial ==
  /\ pc = "rx"
  /\ IF rx = <<>>
     THEN UNCHANGED <<rx, clock, handled, out, strokesOC, strokesCC,
                      activeJobId, pressesOC, gapOC, pressesCC, gapCC, pending>>
     ELSE \E e \in {LineEnd(rx)} : \E line \in {Trim(SubSeq(rx, 1, e - 1))} :
              /\ rx' = SubSeq(rx, e + 1, Len(rx))
              /\ clock' = IF e > Len(rx) THEN clock + READ_TIMEOUT_MS ELSE clock
              /\ pending' = IF e > Len(rx) THEN pending ELSE Tail(pending)
              /\ IF Len(line) > 0
                 THEN HandleIncoming(line)
                 ELSE UNCHANGED <<handled, out, strokesOC, strokesCC,
                                  activeJobId, pressesOC, gapOC, pressesCC,
                                  gapCC>>
  /\ firstPkt' = FirstSent(firstPkt, out, out')
  /\ pc' = "hb"
  /\ UNCHANGED <<now, pinOC, pinCC, lastPressOC, lastPressCC, lastHeartbeat,
                 prevHeartbeat, heldOC, heldCC, hellos, hostTail>>

HeartbeatDueGE(t, last) == t - last >= HEARTBEAT_MS

\* millis() - lastHeartbeat > 5000
HeartbeatDue(t, last) == t - last > HEARTBEAT_MS

\* lines 159-170
Heartbeat ==
  /\ pc = "hb"
  /\ IF HeartbeatDue(clock, lastHeartbeat)
     THEN /\ lastHeartbeat' = clock
          /\ prevHeartbeat' = lastHeartbeat
          /\ out' = Append(out, HeartbeatPkt(strokesOC, strokesCC, activeJobId))
     ELSE UNCHANGED <<lastHeartbeat, prevHeartbeat, out>>
  /\ firstPkt' = FirstSent(firstPkt, out, out')
  /\ pc' = "top"
  /\ UNCHANGED <<clock, now, pinOC, pinCC, strokesOC, strokesCC, activeJobId,
                 lastPressOC, lastPressCC, rx, handled,
                 pressesOC, gapOC, pressesCC, gapCC,
                 heldOC, heldCC, hellos, hostTail, pending>>

\* One step of the firmware's own control flow.
Firmware(waits, ticks, maxTime, levelsCC) ==
  \/ Setup(waits)
  \/ LoopTop(ticks, maxTime, levelsCC)
  \/ SampleOC
  \/ SampleCC
  \/ ReadSerial
  \/ Heartbeat

\* Debounce timing: ticks around the debounce interval, RESET from the host.
Next ==
  \/ Firmware(AttachAtOnce, DebounceTicks, MaxTime, Levels)
  \/ HostSend(TimedLines, {}, MaxTime, MaxRxLines)

Spec == Init /\ [][Next]_vars

\* Command interpreter: every kind of line, no tick between passes.
NextCmd ==
  \/ Firmware(AttachAtOnce, NoTicks, MaxTime, Levels)
  \/ HostSend(CmdLines, {}, MaxTime, MaxRxLines)

SpecCmd == Init /\ [][NextCmd]_vars

\* Heartbeat timing: ticks around the heartbeat period.
NextHb ==
  \/ Firmware(AttachAtOnce, HbTicks, MaxTimeHb, Levels)
  \/ HostSend(HbLines, {}, MaxTimeHb, MaxRxLines)

SpecHb == Init /\ [][NextHb]_vars

\* loop() is called again whenever it returns, and each of its steps (and
\* setup's) completes: the firmware's own control flow is weakly fair.
SpecHbFair ==
  SpecHb /\ WF_vars(Firmware(AttachAtOnce, HbTicks, MaxTimeHb, Levels))

\* Inbound lines: bursts of terminated lines, and bytes without a terminator.
NextRx ==
  \/ Firmware(AttachAtOnce, NoTicks, MaxTimeRx, Levels)
  \/ HostSend(RxLines, RxPartials, MaxTimeRx, MaxBurst)

SpecRx == Init /\ [][NextRx]_vars

\* The whole loop: presses, every kind of command, heartbeats.
NextAll ==
  \/ Firmware(AttachAtOnce, HbTicks, MaxTimeHb, Levels)
  \/ HostSend(AllLines, {}, MaxTimeHb, MaxRxLines)

SpecAll == Init /\ [][NextAll]_vars

\* Startup: the host attaches early, late or never; then the running loop
\* with presses, PING lines and heartbeats.
NextBoot ==
  \/ Firmware(AttachWaits, HbTicks, MaxTimeHb, Levels)
  \/ HostSend(BootLines, {}, MaxTimeHb, MaxRxLines)

SpecBoot == Init /\ [][NextBoot]_vars

\* setup() and every step of loop() complete (no statement of setup blocks
\* for ever: the blinks and the attach wait are bounded).
SpecBootFair ==
  SpecBoot /\ WF_vars(Firmware(AttachWaits, HbTicks, MaxTimeHb, Levels))

---------------------------------------------------------------------------
(* Vocabulary of the properties                                            *)

Contains(l, pat) ==
  \E i \in 1..(Len(l) - Len(pat) + 1) : SubSeq(l, i, i + Len(pat) - 1) = pat

Last(q) == q[Len(q)]

\* The step hands a line to the command interpreter; LineHandled is that line.
HandlesLine == pc = "rx" /\ handled = <<>> /\ Len(handled') = 1

LineHandled == handled'[1]

\* The pass has handed a line to the interpreter and the interpreter has returned.
HasHandled == pc = "hb" /\ Len(handled) = 1

\* The command a line carries, by the interpreter's priority PING, RESET,
\* JOB_SELECTED (C9): a RESET command line contains "RESET" and not "PING",
\* a job-selection command line contains "JOB_SELECTED" and neither of them.
IsPingCommand(l) == Contains(l, qPING)

IsResetCommand(l) == Contains(l, qRESET) /\ ~Contains(l, qPING)

IsJobCommand(l) ==
  Contains(l, qJOB_SELECTED) /\ ~Contains(l, qPING) /\ ~Contains(l, qRESET)

\* Where the jobId marker first occurs in a line (1-based), where the token
\* after it starts, and where the next quote is.
MarkerPositions(l) ==
  {i \in 1..(Len(l) - MARKER_LEN + 1) : SubSeq(l, i, i + MARKER_LEN - 1) = qJobIdMarker}

HasMarker(l) == MarkerPositions(l) # {}

TokenFirst(l) == Min(MarkerPositions(l)) + MARKER_LEN

QuotesAfterMarker(l) == {j \in TokenFirst(l)..Len(l) : l[j] = "\""}

HasClosingQuote(l) == HasMarker(l) /\ QuotesAfterMarker(l) # {}

\* The characters between the marker and the closing quote.
Token(l) == SubSeq(l, TokenFirst(l), Min(QuotesAfterMarker(l)) - 1)

WellFormedJob(l) ==
  IsJobCommand(l) /\ HasClosingQuote(l) /\ Token(l) # <<>>

---------------------------------------------------------------------------
(* C1.  Presses spaced at least the debounce interval apart are all        *)
(* counted.  The time of a sample is the pass's timestamp now; the time of *)
(* the last accepted press is lastPress (0 before the first one).          *)

\* C1 as stated (spacing >= 200 ms): while every pressed sample of a channel
\* since boot or the last RESET came at least 200 ms after the last accepted
\* one, the channel's counter equals the number of those samples.
C1_AtLeastIntervalCounted ==
  /\ gapOC \in {"gt", "eq"} => strokesOC = pressesOC
  /\ gapCC \in {"gt", "eq"} => strokesCC = pressesCC

\* C1 amended (spacing > 200 ms): while every pressed sample of a channel
\* since boot or the last RESET came strictly more than 200 ms after the last
\* accepted one, the channel's counter equals the number of those samples.
C1_BeyondIntervalCounted ==
  /\ gapOC = "gt" => strokesOC = pressesOC
  /\ gapCC = "gt" => strokesCC = pressesCC

\* Three presses of OC, each more than 200 ms after the one before, counted.
C1_Witness ==
  gapOC = "gt" /\ pressesOC = 3 /\ strokesOC = 3 /\ lastPressOC > DEBOUNCE_MS

---------------------------------------------------------------------------
(* C2.  A pressed level sampled strictly less than 200 ms after the        *)
(* channel's last accepted edge changes neither counter, neither debounce  *)
(* timestamp and sends nothing; nor is it counted later: a counter only    *)
(* goes up in the sampling step of its own channel, on a level read        *)
(* pressed in that step at least the interval after the last accepted one. *)
C2_EarlyPressIgnored ==
  [][ /\ (pc = "oc" /\ pinOC = "LOW" /\ now - lastPressOC < DEBOUNCE_MS)
           => UNCHANGED <<strokesOC, strokesCC, lastPressOC, lastPressCC, out>>
      /\ (pc = "cc" /\ pinCC = "LOW" /\ now - lastPressCC < DEBOUNCE_MS)
           => UNCHANGED <<strokesOC, strokesCC, lastPressOC, lastPressCC, out>>
      /\ strokesOC' > strokesOC
           => pc = "oc" /\ pinOC = "LOW" /\ now - lastPressOC >= DEBOUNCE_MS
      /\ strokesCC' > strokesCC
           => pc = "cc" /\ pinCC = "LOW" /\ now - lastPressCC >= DEBOUNCE_MS
    ]_vars

\* OC was read pressed in this pass, 30..199 ms after its last accepted edge,
\* and was not accepted.
C2_Witness ==
  /\ pc = "cc"
  /\ pinOC = "LOW"
  /\ strokesOC = 1
  /\ lastPressOC > 0
  /\ now - lastPressOC > 0
  /\ now - lastPressOC < DEBOUNCE_MS
  /\ out = <<>>

---------------------------------------------------------------------------
(* C3.  Whenever a line carrying the RESET command is handled, whatever    *)
(* the counters were, both counters are zero right after and exactly one   *)
(* packet is sent, the ACK "counters reset".                               *)
C3_ResetZeroesAndAcks ==
  [][ (HandlesLine /\ IsResetCommand(LineHandled))
        => /\ strokesOC' = 0
           /\ strokesCC' = 0
           /\ out' = Append(out, [type |-> "ACK", message |-> <<"counters reset">>])
    ]_vars

\* Both buttons were accepted in this pass (counters were 1 and 1) and then
\* a RESET line was handled.
C3_Witness ==
  /\ HasHandled
  /\ IsResetCommand(handled[1])
  /\ Len(out) = 3
  /\ out[1].type = "STROKE"
  /\ out[2].type = "STROKE"
  /\ out[2].cc = 1
  /\ out[3] = [type |-> "ACK", message |-> <<"counters reset">>]
  /\ strokesOC = 0
  /\ strokesCC = 0

---------------------------------------------------------------------------
(* C4.  Handling a job-selection command line whose jobId marker is        *)
(* followed by a non-empty token and a closing quote sets the active job   *)
(* identifier to exactly that token and sends exactly one packet, the ACK  *)
(* "job set: <token>" - wherever the marker stands in the line.            *)
C4_JobSelectSetsToken ==
  [][ (HandlesLine /\ WellFormedJob(LineHandled))
        => /\ activeJobId' = Token(LineHandled)
           /\ out' = Append(out, [type |-> "ACK",
                                  message |-> <<"job set: ", Token(LineHandled)>>])
    ]_vars

---------------------------------------------------------------------------
(* C5.  Handling a job-selection command line that has no jobId marker, or *)
(* no closing quote after the marker, leaves the active job identifier and *)
(* both counters unchanged and sends no packet.                            *)
C5_MalformedJobIgnored ==
  [][ (/\ HandlesLine
       /\ IsJobCommand(LineHandled)
       /\ (~HasMarker(LineHandled) \/ ~HasClosingQuote(LineHandled)))
        => UNCHANGED <<activeJobId, strokesOC, strokesCC, out>>
    ]_vars

\* A job was selected earlier; a job-selection line that lacks the closing
\* quote was then handled, in a pass that sent nothing.
C5_Witness ==
  /\ HasHandled
  /\ IsJobCommand(handled[1])
  /\ HasMarker(handled[1])
  /\ ~HasClosingQuote(handled[1])
  /\ activeJobId = TokJ1
  /\ out = <<>>

---------------------------------------------------------------------------
(* C6.  Handling a line that contains "PING" sends exactly one packet, the *)
(* ACK "pong", whatever the counters and the job identifier are, and       *)
(* changes none of them.                                                   *)
C6_PingPongs ==
  [][ (HandlesLine /\ IsPingCommand(LineHandled))
        => /\ out' = Append(out, [type |-> "ACK", message |-> <<"pong">>])
           /\ UNCHANGED <<strokesOC, strokesCC, activeJobId>>
    ]_vars

\* A PING handled with a counter at 1 and a job selected.
C6_Witness ==
  /\ HasHandled
  /\ IsPingCommand(handled[1])
  /\ Last(out) = [type |-> "ACK", message |-> <<"pong">>]
  /\ strokesOC = 1
  /\ activeJobId # <<>>

---------------------------------------------------------------------------
(* C7.  Heartbeats.                                                        *)

\* C7 as stated: consecutive HEARTBEAT packets are sent exactly 5000 ms apart.
C7_ExactPeriod ==
  prevHeartbeat > 0 => lastHeartbeat - prevHeartbeat = HEARTBEAT_MS

\* A heartbeat is due, in the running loop / the pass has just sent one.
HeartbeatIsDue == pc # "setup" /\ clock - lastHeartbeat > HEARTBEAT_MS

HeartbeatSent == pc = "top" /\ out # <<>> /\ Last(out).type = "HEARTBEAT"

\* C7 amended: a pass sends a HEARTBEAT exactly when its heartbeat check
\* finds more than 5000 ms gone since the last one, whatever else the pass
\* did; consecutive heartbeats are therefore strictly more than 5000 ms
\* apart; and while the loop runs every heartbeat that is due is sent.
C7_HeartbeatWhenDue ==
  /\ [](prevHeartbeat > 0 => lastHeartbeat - prevHeartbeat > HEARTBEAT_MS)
  /\ [][ pc = "hb" =>
           IF clock - lastHeartbeat > HEARTBEAT_MS
           THEN /\ Len(out') = Len(out) + 1
                /\ Last(out').type = "HEARTBEAT"
                /\ lastHeartbeat' = clock
           ELSE UNCHANGED <<out, lastHeartbeat>>
       ]_vars
  /\ HeartbeatIsDue ~> HeartbeatSent

\* A second heartbeat, sent in a pass that also accepted a press: it comes
\* 5030 ms after the first.
C7_Witness ==
  /\ HeartbeatSent
  /\ out[1].type = "STROKE"
  /\ prevHeartbeat > 0
  /\ lastHeartbeat - prevHeartbeat = HEARTBEAT_MS + LED_PULSE_MS

---------------------------------------------------------------------------
(* C8.  A HEARTBEAT packet carries the values both counters and the active *)
(* job identifier have when it is sent, effects of the same pass included. *)
C8_HeartbeatCarriesCurrentState ==
  HeartbeatSent =>
    /\ Last(out).oc = strokesOC
    /\ Last(out).cc = strokesCC
    /\ Last(out).jobId = activeJobId

\* One pass accepted a press on OC, handled a job selection and sent a
\* heartbeat that shows both.
C8_Witness ==
  /\ HeartbeatSent
  /\ Len(out) = 3
  /\ out[1] = [type |-> "STROKE", foam |-> "oc", oc |-> 1, cc |-> 0]
  /\ out[2] = [type |-> "ACK", message |-> <<"job set: ", TokJ1>>]
  /\ out[3] = [type |-> "HEARTBEAT", oc |-> 1, cc |-> 0, jobId |-> TokJ1]

---------------------------------------------------------------------------
(* C9.  The interpreter tests for "PING", "RESET", "JOB_SELECTED" in that  *)
(* order and the first match wins: a handled line causes at most one       *)
(* reaction; with "PING" in it only the pong ACK, else with "RESET" in it  *)
(* only the reset (job identifier unchanged), else with "JOB_SELECTED" in  *)
(* it at most the job selection (counters unchanged), else nothing.        *)
C9_FirstMatchWins ==
  [][ HandlesLine =>
        /\ Len(out') <= Len(out) + 1
        /\ Contains(LineHandled, qPING) =>
             /\ out' = Append(out, [type |-> "ACK", message |-> <<"pong">>])
             /\ UNCHANGED <<strokesOC, strokesCC, activeJobId>>
        /\ (~Contains(LineHandled, qPING) /\ Contains(LineHandled, qRESET)) =>
             /\ out' = Append(out, [type |-> "ACK", message |-> <<"counters reset">>])
             /\ strokesOC' = 0
             /\ strokesCC' = 0
             /\ UNCHANGED activeJobId
        /\ (/\ ~Contains(LineHandled, qPING)
            /\ ~Contains(LineHandled, qRESET)
            /\ Contains(LineHandled, qJOB_SELECTED)) =>
             /\ UNCHANGED <<strokesOC, strokesCC>>
             /\ \/ UNCHANGED <<out, activeJobId>>
                \/ out' = Append(out, [type |-> "ACK",
                                       message |-> <<"job set: ", activeJobId'>>])
    ]_vars

\* A line with "RESET" and a well-formed job selection in it was handled as
\* a reset: the job identifier selected earlier is still there.
C9_Witness ==
  /\ HasHandled
  /\ Contains(handled[1], qRESET)
  /\ Contains(handled[1], qJOB_SELECTED)
  /\ HasClosingQuote(handled[1])
  /\ Last(out) = [type |-> "ACK", message |-> <<"counters reset">>]
  /\ activeJobId = TokJ1

---------------------------------------------------------------------------
(* C10.  Handling a line that contains none of the three command           *)
(* substrings sends no packet and leaves both counters, the job            *)
(* identifier and the three timestamps unchanged.                          *)
C10_UnknownLineDropped ==
  [][ (/\ HandlesLine
       /\ ~Contains(LineHandled, qPING)
       /\ ~Contains(LineHandled, qRESET)
       /\ ~Contains(LineHandled, qJOB_SELECTED))
        => UNCHANGED <<out, strokesOC, strokesCC, activeJobId,
                       lastPressOC, lastPressCC, lastHeartbeat>>
    ]_vars

\* The word PING without its quotes was handled, with a counter at 1 and a
\* job selected, in a pass that sent nothing.
C10_Witness ==
  /\ HasHandled
  /\ handled[1] = LineBarePing
  /\ out = <<>>
  /\ strokesOC = 1
  /\ activeJobId # <<>>

---------------------------------------------------------------------------
(* C11.  A button that stays pressed.  heldOC / heldCC count the edges     *)
(* accepted on a channel since the channel was last sampled HIGH.          *)

\* C11 as stated: after an accepted edge, no further edge is accepted on
\* the channel until it has been sampled released (HIGH) and pressed again.
C11_NoRetriggerWhileHeld == heldOC <= 1 /\ heldCC <= 1

\* C11 amended: a held button re-triggers.  A pressed sample of a channel
\* that has seen no HIGH sample since its last accepted edge is accepted
\* exactly when its pass's timestamp is more than 200 ms after that edge.
C11_HeldRetriggersAfterInterval ==
  [][ /\ (pc = "oc" /\ pinOC = "LOW" /\ heldOC > 0)
           => IF now - lastPressOC > DEBOUNCE_MS
              THEN strokesOC' = strokesOC + 1 /\ lastPressOC' = now
              ELSE UNCHANGED <<strokesOC, lastPressOC>>
      /\ (pc = "cc" /\ pinCC = "LOW" /\ heldCC > 0)
           => IF now - lastPressCC > DEBOUNCE_MS
              THEN strokesCC' = strokesCC + 1 /\ lastPressCC' = now
              ELSE UNCHANGED <<strokesCC, lastPressCC>>
    ]_vars

\* Two edges of OC accepted in one hold: the second in this pass, the
\* button never sampled HIGH in between.
C11_Witness ==
  /\ pc = "cc"
  /\ pinOC = "LOW"
  /\ heldOC = 2
  /\ strokesOC = 2
  /\ lastPressOC = now
  /\ Len(out) = 1
  /\ out[1] = [type |-> "STROKE", foam |-> "oc", oc |-> 2, cc |-> 0]

---------------------------------------------------------------------------
(* C12.  One inbound line per pass.                                        *)

\* The complete (terminator-ended) lines in the receive buffer, the first
\* of them, and the buffer behind it.
CompleteLines(buf) == Cardinality({i \in 1..Len(buf) : buf[i] = "\n"})

FirstTerminator(buf) == Min({i \in 1..Len(buf) : buf[i] = "\n"})

FirstLine(buf) == SubSeq(buf, 1, FirstTerminator(buf) - 1)

BehindFirstLine(buf) == SubSeq(buf, FirstTerminator(buf) + 1, Len(buf))

AcksIn(q) == Cardinality({i \in 1..Len(q) : q[i].type = "ACK"})

\* C12: with k >= 1 complete lines buffered, the read step of a pass takes
\* exactly the first one (handing it to the interpreter if it is not blank)
\* and leaves the other k - 1 in the buffer as they were; no other step of
\* the pass reads; so a pass handles at most one line and sends at most one
\* command ACK.
C12_OneLinePerPass ==
  /\ [](Len(handled) <= 1 /\ AcksIn(out) <= 1)
  /\ [][ (pc = "rx" /\ CompleteLines(rx) >= 1)
           => /\ rx' = BehindFirstLine(rx)
              /\ CompleteLines(rx') = CompleteLines(rx) - 1
              /\ handled' = IF Trim(FirstLine(rx)) = <<>> THEN handled
                            ELSE Append(handled, Trim(FirstLine(rx)))
       ]_vars
  /\ [][ (pc = "oc" \/ pc = "cc" \/ pc = "hb") => rx' = rx ]_vars

\* Two commands were buffered when the pass began: the PING was handled and
\* answered, the RESET is still in the buffer and the counter still stands.
C12_Witness ==
  /\ pc = "hb"
  /\ handled = <<LinePing>>
  /\ rx = LineReset \o <<"\n">>
  /\ strokesOC = 1
  /\ AcksIn(out) = 1

---------------------------------------------------------------------------
(* C13.  The HELLO packet.  hellos counts the HELLO packets sent since     *)
(* boot, firstPkt is the type of the first packet sent since boot.         *)

\* The step sends a packet of type t (out is emptied when a pass begins, and
\* otherwise only grows at its end).
SendsType(t) == Len(out') > Len(out) /\ out'[Len(out')].type = t

\* C13: HELLO is sent exactly once, by setup(), before any other packet:
\* nothing is sent while setup() runs, setup() ends by sending HELLO - at
\* most 3000 ms of waiting after the blinks, whether the host attaches
\* during the wait or not at all - and the loop never sends HELLO again.
C13_HelloOnceAndFirst ==
  /\ [](IF pc = "setup"
        THEN hellos = 0 /\ firstPkt = "none" /\ out = <<>>
        ELSE hellos = 1 /\ firstPkt = "HELLO")
  /\ [][ /\ SendsType("HELLO") <=> pc = "setup"
         /\ pc = "setup"
              => /\ out' = <<[type |-> "HELLO", version |-> "0.1.0",
                              device |-> "ESP32-S3-USB-Test"]>>
                 /\ clock' <= clock + BLINK_COUNT * 2 * BLINK_MS + ATTACH_WAIT_MS
       ]_vars
  /\ (pc = "setup") ~> (hellos = 1)

\* The host never attached: setup() gave up after 3000 ms and sent HELLO, and
\* the loop has since sent a STROKE and a HEARTBEAT.
C13_Witness ==
  /\ hellos = 1
  /\ firstPkt = "HELLO"
  /\ lastPressOC = BLINK_COUNT * 2 * BLINK_MS + ATTACH_WAIT_MS
  /\ lastHeartbeat > lastPressOC
  /\ out # <<>>
  /\ Last(out).type = "HEARTBEAT"

---------------------------------------------------------------------------
(* C14.  What changes a stroke counter.                                    *)

\* C14: in every step each counter keeps its value, or goes up by exactly 1
\* - only in the sampling step of its own channel - or goes to 0 - only in
\* the step that handles a RESET command; so a step that handles a PING, a
\* job selection or an unrecognized line, the heartbeat step, the step that
\* enters the pass and a sampling step that rejects leave both unchanged.
C14_CounterSteps ==
  [][ /\ \/ strokesOC' = strokesOC
         \/ strokesOC' = strokesOC + 1 /\ pc = "oc"
         \/ strokesOC' = 0 /\ HandlesLine /\ IsResetCommand(LineHandled)
      /\ \/ strokesCC' = strokesCC
         \/ strokesCC' = strokesCC + 1 /\ pc = "cc"
         \/ strokesCC' = 0 /\ HandlesLine /\ IsResetCommand(LineHandled)
      /\ (HandlesLine /\ ~IsResetCommand(LineHandled))
           => UNCHANGED <<strokesOC, strokesCC>>
      /\ pc = "hb" => UNCHANGED <<strokesOC, strokesCC>>
      /\ (pc = "oc" /\ out' = out) => UNCHANGED <<strokesOC, strokesCC>>
      /\ (pc = "cc" /\ out' = out) => UNCHANGED <<strokesOC, strokesCC>>
    ]_vars

\* The counters stood at 2 and 1 when a job selection was handled, in a pass
\* (the one that made OC 2) that also sent a heartbeat: they still stand at
\* 2 and 1, and the heartbeat shows them.
C14_Witness ==
  /\ HeartbeatSent
  /\ Len(handled) = 1
  /\ IsJobCommand(handled[1])
  /\ Len(out) = 3
  /\ out[1] = [type |-> "STROKE", foam |-> "oc", oc |-> 2, cc |-> 1]
  /\ out[2] = [type |-> "ACK", message |-> <<"job set: ", TokJ1>>]
  /\ strokesOC = 2
  /\ strokesCC = 1

---------------------------------------------------------------------------
(* C15.  Handling a RESET command changes the two counters and nothing     *)
(* else of the program's state: the active job identifier, both debounce   *)
(* timestamps and the heartbeat timer are what they were.                  *)
C15_ResetTouchesOnlyCounters ==
  [][ (HandlesLine /\ IsResetCommand(LineHandled))
        => /\ activeJobId' = activeJobId
           /\ lastPressOC' = lastPressOC
           /\ lastPressCC' = lastPressCC
           /\ lastHeartbeat' = lastHeartbeat
    ]_vars

\* A RESET handled after a job was selected, both buttons were accepted and
\* a heartbeat was sent: the counters are 0, the rest is as it was.
C15_Witness ==
  /\ HasHandled
  /\ IsResetCommand(handled[1])
  /\ Last(out) = [type |-> "ACK", message |-> <<"counters reset">>]
  /\ strokesOC = 0
  /\ strokesCC = 0
  /\ activeJobId = TokJ1
  /\ lastPressOC > 0
  /\ lastPressCC > lastPressOC
  /\ lastHeartbeat > 0

---------------------------------------------------------------------------
(* C16.  Only a complete line is handed to the interpreter: while no       *)
(* terminator is in the receive buffer the read step of a pass hands       *)
(* nothing over, resets no counter, changes no job identifier and sends    *)
(* nothing.                                                                *)
C16_OnlyTerminatedLinesHandled ==
  [][ (pc = "rx" /\ CompleteLines(rx) = 0)
        => UNCHANGED <<handled, strokesOC, strokesCC, activeJobId, out>>
    ]_vars

---------------------------------------------------------------------------
(* C20.  Lines are handled in arrival order, each once.  pending is the    *)
(* sequence of the complete lines the host has written (each from the byte *)
(* after the previous terminator to its own terminator) that the firmware  *)
(* has not read yet.                                                       *)

\* C20 (what a finite run can refute of it): whenever a complete line of
\* the host is waiting, the read step of the pass takes the oldest one off,
\* and what it hands to the interpreter is exactly that line, trimmed; it
\* hands nothing over only if it read nothing but blanks.  So no line is
\* skipped, handed over twice, out of order or in pieces.
C20_HandledInArrivalOrderOnce ==
  [][ (pc = "rx" /\ pending # <<>>)
        => /\ pending' = Tail(pending)
           /\ IF Len(handled') > Len(handled)
              THEN handled' = Append(handled, Trim(Head(pending)))
              ELSE Trim(FirstLine(rx)) = <<>>
    ]_vars

---------------------------------------------------------------------------
(* C17.  STROKE packets.                                                   *)

\* C17: a step sends a STROKE packet exactly when it accepts an edge (a
\* counter goes up by 1); it then sends that one packet and no other, with
\* the tag of the accepted channel and both counters as they are after the
\* increment.  So when one pass accepts both channels its packets are "oc"
\* then "cc", and the "oc" packet shows the CC counter one lower.
C17_OneStrokePerAcceptedEdge ==
  /\ [][ /\ SendsType("STROKE")
              <=> (strokesOC' = strokesOC + 1 \/ strokesCC' = strokesCC + 1)
         /\ strokesOC' = strokesOC + 1
              => out' = Append(out, [type |-> "STROKE", foam |-> "oc",
                                     oc |-> strokesOC', cc |-> strokesCC'])
         /\ strokesCC' = strokesCC + 1
              => out' = Append(out, [type |-> "STROKE", foam |-> "cc",
                                     oc |-> strokesOC', cc |-> strokesCC'])
       ]_vars
  /\ [](\A i, j \in 1..Len(out) :
          (i < j /\ out[i].type = "STROKE" /\ out[j].type = "STROKE")
            => /\ out[i].foam = "oc"
               /\ out[j].foam = "cc"
               /\ out[i].oc = out[j].oc
               /\ out[i].cc + 1 = out[j].cc)

\* Both channels accepted in this pass, for the second time each: the "oc"
\* packet shows cc = 1, the "cc" packet after it cc = 2.
C17_Witness ==
  /\ pc = "rx"
  /\ out = << [type |-> "STROKE", foam |-> "oc", oc |-> 2, cc |-> 1],
              [type |-> "STROKE", foam |-> "cc", oc |-> 2, cc |-> 2] >>
  /\ strokesOC = 2
  /\ strokesCC = 2

---------------------------------------------------------------------------
(* C18.  The two channels are independent: the sampling step of a channel  *)
(* leaves the other channel's counter and debounce timestamp alone, and it *)
(* accepts exactly when its own level reads LOW more than 200 ms (by the   *)
(* pass's timestamp, which the other channel's step does not move) after   *)
(* its own last accepted edge - whatever the other channel did in this     *)
(* pass or before.                                                         *)
C18_ChannelsIndependent ==
  [][ /\ pc = "oc"
           => /\ UNCHANGED <<strokesCC, lastPressCC, now>>
              /\ (strokesOC' = strokesOC + 1 /\ lastPressOC' = now)
                   <=> (pinOC = "LOW" /\ now - lastPressOC > DEBOUNCE_MS)
              /\ UNCHANGED <<strokesOC, lastPressOC>>
                   <=> ~(pinOC = "LOW" /\ now - lastPressOC > DEBOUNCE_MS)
      /\ pc = "cc"
           => /\ UNCHANGED <<strokesOC, lastPressOC, now>>
              /\ (strokesCC' = strokesCC + 1 /\ lastPressCC' = now)
                   <=> (pinCC = "LOW" /\ now - lastPressCC > DEBOUNCE_MS)
              /\ UNCHANGED <<strokesCC, lastPressCC>>
                   <=> ~(pinCC = "LOW" /\ now - lastPressCC > DEBOUNCE_MS)
    ]_vars

\* One pass read both buttons pressed: OC was accepted (and held the loop
\* for 30 ms), CC - exactly 200 ms after its last accepted edge by the
\* pass's timestamp, 230 ms by the clock - was rejected all the same.
C18_Witness ==
  /\ pc = "rx"
  /\ pinOC = "LOW"
  /\ pinCC = "LOW"
  /\ lastPressOC = now
  /\ now - lastPressCC = DEBOUNCE_MS
  /\ clock - lastPressCC = DEBOUNCE_MS + LED_PULSE_MS
  /\ out = <<[type |-> "STROKE", foam |-> "oc", oc |-> 1, cc |-> 1]>>

---------------------------------------------------------------------------
(* C19.  The active job identifier is never emptied: whenever it changes,  *)
(* or a job selection is acknowledged, the step handles a job-selection    *)
(* line and the identifier is non-empty afterwards; a job-selection line   *)
(* with nothing between the quotes changes nothing and is not              *)
(* acknowledged; and no step (a RESET included) takes a non-empty          *)
(* identifier back to empty.                                               *)
C19_JobIdNeverEmptied ==
  [][ /\ activeJobId' # activeJobId
           => HandlesLine /\ IsJobCommand(LineHandled) /\ activeJobId' # <<>>
      /\ (SendsType("ACK") /\ out'[Len(out')].message[1] = "job set: ")
           => /\ HandlesLine
              /\ activeJobId' # <<>>
              /\ out'[Len(out')].message = <<"job set: ", activeJobId'>>
      /\ (/\ HandlesLine
          /\ IsJobCommand(LineHandled)
          /\ HasClosingQuote(LineHandled)
          /\ Token(LineHandled) = <<>>)
           => UNCHANGED <<activeJobId, out>>
      /\ activeJobId # <<>> => activeJobId' # <<>>
    ]_vars

\* With job j1 selected, a job-selection line with an empty token was
\* handled: no ACK, and the identifier is still j1.
C19_Witness ==
  /\ HasHandled
  /\ handled[1] = LineJob(<<>>)
  /\ activeJobId = TokJ1
  /\ out = <<>>

====
